---------------------------- MODULE Spec2Model ----------------------------
(***************************************************************************)
(* Session subsystem of crypto-info: the in-memory session store, the      *)
(* session Manager, the gin middleware that binds a session to a request,  *)
(* and the session HTTP handlers.                                          *)
(*                                                                         *)
(* Time is a discrete clock `now`; every time.Now() of the code reads it.  *)
(* Session ids are integers: 1, 2, ... are the ids uuid.New() issues, in   *)
(* order; UnknownId is an id that was never issued; EmptyId is the empty   *)
(* string; NoCookie stands for a request that carries no session cookie.   *)
(* Each store operation is one step (it runs under the store's mutex),     *)
(* except that the expired paths of Get and Exists release the read lock   *)
(* before they take the write lock, so their delete is a step of its own.  *)
(* A second view of the memory store takes every call of its sync.RWMutex  *)
(* and every access of its map as a step (mutex, frame, closed), and a     *)
(* third section is the Redis store with its expiring keys (rkeys).        *)
(***************************************************************************)
EXTENDS Integers, Sequences, FiniteSets, TLC

(* ------------------------------ bounds -------------------------------- *)
MaxAge == 1
MaxTime == 2
MaxCalls == 3
MaxObjs == 4
DataCalls == 5
LockCalls == 3

(* ---------------------- encodings of Go values ------------------------ *)
NoCookie == -2
EmptyId == -1
UnknownId == 0
NoCtxId == NoCookie

Ids == 1..MaxCalls
Procs == {1, 2}
Keys == {"a", "b"}
Vals == {"x"}
NoKey == "-"
NoVal == "-"

ErrNone == "ok"
ErrNotFound == "session not found"
ErrExpired == "session expired"
ErrIdRequired == "session ID is required"
ErrSessionRequired == "session is required"
ErrCtxNotFound == "session ID not found"
ErrBackend == "failed to get session from redis"
ErrDataNotFound == "session data not found"

NilSession == [nil |-> TRUE]
CtxUnset == [present |-> FALSE]
CtxNil == [present |-> TRUE]
IsSession(x) == "id" \in DOMAIN x

VARIABLES now, store, nextId, calls, crashed,
          pc, op, loc, ret, ctxSess, ctxId, cookies, resp,
          down, mem, mutex, frame, closed, rkeys

vars == <<now, store, nextId, calls, crashed,
          pc, op, loc, ret, ctxSess, ctxId, cookies, resp,
          down, mem, mutex, frame, closed, rkeys>>

lockVars == <<mutex, frame, closed>>

globals == <<now, store, nextId, crashed>>

(* --------------------------- session values --------------------------- *)
EmptyData == [k \in {} |-> NoVal]

DataSet_KeepsOnlyLast(d, k, v) == [x \in {k} |-> v]

DataSet(d, k, v) == [x \in (DOMAIN d) \cup {k} |-> IF x = k THEN v ELSE d[x]]

DataDelete(d, k) == [x \in (DOMAIN d) \ {k} |-> d[x]]

NewSession_ExpiresAtOnce(id, t) ==
    [id |-> id, data |-> EmptyData, createdAt |-> t, updatedAt |-> t,
     expiresAt |-> t]

NewSession(id, t) ==
    [id |-> id, data |-> EmptyData, createdAt |-> t, updatedAt |-> t,
     expiresAt |-> t + MaxAge]

(* session.ExpiresAt.Before(time.Now()) *)
Expired(s, t) == s.expiresAt < t

RefreshedSession_RotatesId(s, t) ==
    [s EXCEPT !.expiresAt = t + MaxAge, !.id = s.id + 1]

RefreshedSession_FromCreation(s, t) == [s EXCEPT !.expiresAt = s.createdAt + MaxAge]

(* RefreshSession: session.ExpiresAt = time.Now().Add(m.config.MaxAge) *)
RefreshedSession(s, t) == [s EXCEPT !.expiresAt = t + MaxAge]

SavedSession_Sliding(s, t) == [s EXCEPT !.updatedAt = t, !.expiresAt = t + MaxAge]

(* SaveSession: session.UpdatedAt = time.Now(), then store.Set(session) *)
SavedSession(s, t) == [s EXCEPT !.updatedAt = t]

(* ---------------------------- MemoryStore ----------------------------- *)
MapPut_MergesData(m, s) ==
    [i \in (DOMAIN m) \cup {s.id} |->
        IF i # s.id THEN m[i]
        ELSE IF i \notin DOMAIN m THEN s
        ELSE [s EXCEPT !.data =
                 [k \in (DOMAIN m[i].data) \cup (DOMAIN s.data) |->
                     IF k \in DOMAIN s.data THEN s.data[k] ELSE m[i].data[k]]]]

MapPut(m, s) == [i \in (DOMAIN m) \cup {s.id} |-> IF i = s.id THEN s ELSE m[i]]

MapDelete_KeepsEntry(m, id) == m

MapDelete_ClearsAll(m, id) ==
    IF id \in DOMAIN m THEN [i \in {} |-> NilSession] ELSE m

MapDelete(m, id) == [i \in (DOMAIN m) \ {id} |-> m[i]]

(* the ids Cleanup collects in expiredSessions *)
ExpiredIds(m, t) == {i \in DOMAIN m : Expired(m[i], t)}

CleanupMap_StopsAfterFirst(m, t) ==
    IF ExpiredIds(m, t) = {} THEN m
    ELSE MapDelete(m, CHOOSE i \in ExpiredIds(m, t) : \A j \in ExpiredIds(m, t) : i <= j)

CleanupMap(m, t) == [i \in (DOMAIN m) \ ExpiredIds(m, t) |-> m[i]]

(* the branch MemoryStore.Exists takes under its read lock *)
ExistsOutcome(m, id, t) ==
    IF id \notin DOMAIN m THEN "absent"
    ELSE IF Expired(m[id], t) THEN "expired" ELSE "live"


(* ------------------------------ cookies ------------------------------- *)
DefaultCookieMaxAge == 86400

(* setSessionCookie: int(cfg.MaxAge.Seconds()), 24 hours when not positive *)
CookieMaxAge == IF MaxAge <= 0 THEN DefaultCookieMaxAge ELSE MaxAge

SessionCookie(id) == [value |-> id, maxAge |-> CookieMaxAge]

ClearedCookie == [value |-> EmptyId, maxAge |-> -1]

(* ------------------------------- state -------------------------------- *)
NoOp == [kind |-> "none", id |-> UnknownId, key |-> NoKey, val |-> NoVal,
         ep |-> "none"]

NoRet == [err |-> ErrNone, sess |-> NilSession, exists |-> FALSE, count |-> 0,
          saved |-> NilSession, val |-> NoVal]

(* the MemoryStore seen as objects: heap holds the Data maps (a reference is
   an index into it), tab is m.data, held is the *Session its caller holds,
   err the error of the caller's last call, last the last call of the store *)
NoObjects ==
    [heap |-> <<>>, tab |-> [i \in {} |-> NilSession], held |-> NilSession,
     err |-> ErrNone, last |-> [kind |-> "none", id |-> UnknownId, at |-> 0]]

(* sync.RWMutex with no reader and no writer *)
NoMutex == [rc |-> 0, w |-> 0, rwait |-> 0, rsem |-> 0, wsem |-> 0]

(* a goroutine that is in no call of the store and holds no lock *)
NoFrame ==
    [at |-> "idle", kind |-> "none", id |-> UnknownId, sess |-> NilSession,
     wait |-> FALSE, holdsR |-> 0, holdsW |-> FALSE, out |-> "none",
     recovers |-> FALSE]

Init ==
    /\ now = 0
    /\ store = [i \in {} |-> NilSession]
    /\ nextId = 0
    /\ calls = 0
    /\ crashed = FALSE
    /\ pc = [p \in Procs |-> "idle"]
    /\ op = [p \in Procs |-> NoOp]
    /\ loc = [p \in Procs |-> NilSession]
    /\ ret = [p \in Procs |-> NoRet]
    /\ ctxSess = [p \in Procs |-> CtxUnset]
    /\ ctxId = [p \in Procs |-> NoCtxId]
    /\ cookies = [p \in Procs |-> <<>>]
    /\ resp = [p \in Procs |-> 0]
    /\ down = FALSE
    /\ mem = NoObjects
    /\ mutex = NoMutex
    /\ frame = [p \in {1, 2, 3} |-> NoFrame]
    /\ closed = FALSE
    /\ rkeys = [i \in {} |-> NilSession]

(* the goroutine-local part of a step *)
Local(p, npc, nloc, nret, nresp) ==
    /\ pc' = [pc EXCEPT ![p] = npc]
    /\ loc' = [loc EXCEPT ![p] = nloc]
    /\ ret' = [ret EXCEPT ![p] = nret]
    /\ resp' = [resp EXCEPT ![p] = nresp]

(* c.Set(SessionKey, s); c.Set(SessionIDKey, id); setSessionCookie(c, cfg, id) *)
Bind(p, s, id) ==
    /\ ctxSess' = [ctxSess EXCEPT ![p] = s]
    /\ ctxId' = [ctxId EXCEPT ![p] = id]
    /\ cookies' = [cookies EXCEPT ![p] = Append(cookies[p], SessionCookie(id))]

Err(e) == [NoRet EXCEPT !.err = e]

Ok(s) == [NoRet EXCEPT !.sess = s]

(* a call that returns no session: saved records what it wrote to the store *)
Saved(s) == [NoRet EXCEPT !.saved = s]

IssuedIds == 1..nextId

InMiddleware(p) == op[p].kind = "http" /\ op[p].ep = "none"

InHandler(p) == op[p].kind = "http" /\ op[p].ep # "none"

(* the id Manager.GetSession is called with *)
FetchId(p) == IF InHandler(p) THEN ctxId[p] ELSE op[p].id

(* the clock *)
Tick ==
    /\ ~crashed
    /\ UNCHANGED <<down, mem, lockVars, rkeys>>
    /\ now < MaxTime
    /\ now' = now + 1
    /\ UNCHANGED <<store, nextId, calls, crashed,
                   pc, op, loc, ret, ctxSess, ctxId, cookies, resp>>

(* entry points: an inbound HTTP request with its cookie, or a call of the
   Manager / Store API *)
EntryPc(kind, cookie) ==
    CASE kind = "http" -> IF cookie \in {NoCookie, EmptyId} THEN "mw_create" ELSE "get"
      [] kind = "Create" -> "create"
      [] kind = "Delete" -> "delete"
      [] kind = "Exists" -> "exists"
      [] kind = "Save" -> "save"
      [] kind = "Cleanup" -> "cleanup"
      [] OTHER -> "get"

ApiKinds == {"Create", "Get", "Save", "Delete", "Refresh", "SetData",
             "RemoveData", "Exists", "Cleanup"}

(* an inbound HTTP request and the cookie it carries *)
Call_Http(p, sent) ==
    /\ ~crashed
    /\ UNCHANGED <<down, mem, lockVars, rkeys>>
    /\ pc[p] \in {"idle", "done"}
    /\ \E cookie \in sent :
          /\ op' = [op EXCEPT ![p] = [NoOp EXCEPT !.kind = "http", !.id = cookie]]
          /\ Local(p, EntryPc("http", cookie), NilSession, NoRet, 0)
    /\ ctxSess' = [ctxSess EXCEPT ![p] = CtxUnset]
    /\ ctxId' = [ctxId EXCEPT ![p] = NoCtxId]
    /\ cookies' = [cookies EXCEPT ![p] = <<>>]
    /\ calls < MaxCalls
    /\ calls' = calls + 1
    /\ UNCHANGED globals

(* a call of the Manager / Store API; SaveSession is given the session the
   caller's previous CreateSession or GetSession returned, or nil *)
Call_Api(p, kinds, keys, vals, budget) ==
    /\ ~crashed
    /\ UNCHANGED <<down, mem, lockVars, rkeys>>
    /\ pc[p] \in {"idle", "done"}
    /\ \E kind \in kinds,
          id \in {NoCookie, EmptyId, UnknownId} \cup IssuedIds,
          k \in keys \cup {NoKey}, v \in vals \cup {NoVal} :
          /\ (kind \in {"Create", "Save", "Cleanup"}) <=> (id = NoCookie)
          /\ (kind = "SetData") <=> (v # NoVal)
          /\ (kind \in {"SetData", "GetData", "RemoveData"}) <=> (k # NoKey)
          /\ op' = [op EXCEPT ![p] = [kind |-> kind, id |-> id, key |-> k,
                                      val |-> v, ep |-> "none"]]
          /\ Local(p, EntryPc(kind, id),
                   IF kind = "Save" THEN ret[p].sess ELSE NilSession,
                   NoRet, 0)
    /\ ctxSess' = [ctxSess EXCEPT ![p] = CtxUnset]
    /\ ctxId' = [ctxId EXCEPT ![p] = NoCtxId]
    /\ cookies' = [cookies EXCEPT ![p] = <<>>]
    /\ calls < budget
    /\ calls' = calls + 1
    /\ UNCHANGED globals

(* ------------------- Manager.GetSession, step by step ------------------ *)
(* Manager.GetSession failed with e: what its caller does next *)
FetchFail(p, e) ==
    /\ IF InMiddleware(p)
         THEN Local(p, "mw_create", NilSession, Err(e), resp[p])
         ELSE IF InHandler(p)
           THEN Local(p, "post", NilSession, Err(e), 500)
           ELSE Local(p, "done", NilSession, Err(e), resp[p])
    /\ UNCHANGED <<op, ctxSess, ctxId, cookies>>

(* Manager.GetSession returned s: what its caller does next *)
FetchOk(p, s) ==
    CASE InMiddleware(p) ->
           /\ Local(p, "handler", NilSession, ret[p], resp[p])
           /\ Bind(p, s, op[p].id)
           /\ UNCHANGED op
      [] op[p].kind = "Get" ->
           /\ Local(p, "done", NilSession, Ok(s), resp[p])
           /\ UNCHANGED <<op, ctxSess, ctxId, cookies>>
      [] op[p].kind = "Refresh" \/ InHandler(p) ->
           /\ Local(p, "save", RefreshedSession(s, now), ret[p], resp[p])
           /\ UNCHANGED <<op, ctxSess, ctxId, cookies>>
      [] op[p].kind = "SetData" ->
           /\ Local(p, "save",
                    [s EXCEPT !.data = DataSet(s.data, op[p].key, op[p].val)],
                    ret[p], resp[p])
           /\ UNCHANGED <<op, ctxSess, ctxId, cookies>>
      [] op[p].kind = "GetData" ->
           /\ Local(p, "done", NilSession,
                    IF op[p].key \in DOMAIN s.data
                      THEN [NoRet EXCEPT !.val = s.data[op[p].key]]
                      ELSE Err(ErrDataNotFound),
                    resp[p])
           /\ UNCHANGED <<op, ctxSess, ctxId, cookies>>
      [] op[p].kind = "RemoveData" ->
           /\ Local(p, "save", [s EXCEPT !.data = DataDelete(s.data, op[p].key)],
                    ret[p], resp[p])
           /\ UNCHANGED <<op, ctxSess, ctxId, cookies>>

MemoryStore_Get_NoPresenceCheck(p) ==
    /\ ~crashed
    /\ UNCHANGED <<down, mem, lockVars, rkeys>>
    /\ ~down \/ FetchId(p) = EmptyId
    /\ pc[p] = "get"
    /\ LET id == FetchId(p) IN
         IF id = EmptyId
           THEN /\ FetchFail(p, ErrIdRequired)
                /\ UNCHANGED crashed
         ELSE IF id \notin DOMAIN store
           THEN /\ crashed' = TRUE
                /\ Local(p, "done", NilSession, NoRet, resp[p])
                /\ UNCHANGED <<op, ctxSess, ctxId, cookies>>
         ELSE IF Expired(store[id], now)
           THEN /\ Local(p, "get_del", NilSession, ret[p], resp[p])
                /\ UNCHANGED <<op, ctxSess, ctxId, cookies, crashed>>
         ELSE /\ Local(p, "check", store[id], ret[p], resp[p])
              /\ UNCHANGED <<op, ctxSess, ctxId, cookies, crashed>>
    /\ UNCHANGED <<now, store, nextId, calls>>

(* the empty-id check of Manager.GetSession, then MemoryStore.Get up to the
   point where it returns or gives up the read lock *)
MemoryStore_Get(p) ==
    /\ ~crashed
    /\ UNCHANGED <<down, mem, lockVars, rkeys>>
    /\ ~down \/ FetchId(p) = EmptyId
    /\ pc[p] = "get"
    /\ LET id == FetchId(p) IN
         IF id = EmptyId
           THEN FetchFail(p, ErrIdRequired)
         ELSE IF id \notin DOMAIN store
           THEN FetchFail(p, ErrNotFound)
         ELSE IF Expired(store[id], now)
           THEN /\ Local(p, "get_del", NilSession, ret[p], resp[p])
                /\ UNCHANGED <<op, ctxSess, ctxId, cookies>>
         ELSE /\ Local(p, "check", store[id], ret[p], resp[p])
              /\ UNCHANGED <<op, ctxSess, ctxId, cookies>>
    /\ UNCHANGED <<globals, calls>>

(* MemoryStore.Get on an expired entry: Lock, delete, Unlock, "session expired" *)
MemoryStore_GetDelete(p) ==
    /\ ~crashed
    /\ UNCHANGED <<down, mem, lockVars, rkeys>>
    /\ pc[p] = "get_del"
    /\ store' = MapDelete(store, FetchId(p))
    /\ FetchFail(p, ErrExpired)
    /\ UNCHANGED <<now, nextId, calls, crashed>>

Manager_GetSession_NoSecondCheck(p) ==
    /\ ~crashed
    /\ UNCHANGED <<down, mem, lockVars, rkeys>>
    /\ pc[p] = "check"
    /\ store' = store
    /\ FetchOk(p, loc[p])
    /\ UNCHANGED <<now, nextId, calls, crashed>>

(* Manager.GetSession after store.Get returned a session *)
Manager_GetSession(p) ==
    /\ ~crashed
    /\ UNCHANGED <<down, mem, lockVars, rkeys>>
    /\ pc[p] = "check"
    /\ IF Expired(loc[p], now)
         THEN /\ store' = IF down THEN store ELSE MapDelete(store, FetchId(p))
              /\ FetchFail(p, ErrExpired)
         ELSE /\ store' = store
              /\ FetchOk(p, loc[p])
    /\ UNCHANGED <<now, nextId, calls, crashed>>

(* Manager.SaveSession of the session a Manager call holds, and the return
   of that call *)
Manager_SaveSession(p) ==
    /\ ~crashed
    /\ UNCHANGED <<down, mem, lockVars, rkeys>>
    /\ ~down \/ ~IsSession(loc[p])
    /\ pc[p] = "save"
    /\ IF ~IsSession(loc[p])
         THEN /\ Local(p, "done", NilSession, Err(ErrSessionRequired), resp[p])
              /\ UNCHANGED store
         ELSE LET s == SavedSession(loc[p], now) IN
              /\ store' = MapPut(store, s)
              /\ IF InHandler(p)
                   THEN Local(p, "post", NilSession, Saved(s), 200)
                   ELSE Local(p, "done", NilSession, Saved(s), resp[p])
    /\ UNCHANGED <<now, nextId, calls, crashed, op, ctxSess, ctxId, cookies>>

(* Manager.CreateSession called through the API *)
Manager_CreateSession(p) ==
    /\ ~crashed
    /\ UNCHANGED <<down, mem, lockVars, rkeys>>
    /\ ~down
    /\ pc[p] = "create"
    /\ LET s == NewSession(nextId + 1, now) IN
         /\ nextId' = nextId + 1
         /\ store' = MapPut(store, s)
         /\ Local(p, "done", NilSession, Ok(s), resp[p])
    /\ UNCHANGED <<now, calls, crashed, op, ctxSess, ctxId, cookies>>

Manager_DeleteSession_NoIdCheck(p) ==
    /\ ~crashed
    /\ UNCHANGED <<down, mem, lockVars, rkeys>>
    /\ ~down \/ op[p].id = EmptyId
    /\ pc[p] = "delete"
    /\ store' = MapDelete(store, op[p].id)
    /\ Local(p, "done", NilSession, NoRet, resp[p])
    /\ UNCHANGED <<now, nextId, calls, crashed, op, ctxSess, ctxId, cookies>>

(* Manager.DeleteSession called through the API *)
Manager_DeleteSession(p) ==
    /\ ~crashed
    /\ UNCHANGED <<down, mem, lockVars, rkeys>>
    /\ ~down \/ op[p].id = EmptyId
    /\ pc[p] = "delete"
    /\ IF op[p].id = EmptyId
         THEN /\ store' = store
              /\ Local(p, "done", NilSession, Err(ErrIdRequired), resp[p])
         ELSE /\ store' = MapDelete(store, op[p].id)
              /\ Local(p, "done", NilSession, NoRet, resp[p])
    /\ UNCHANGED <<now, nextId, calls, crashed, op, ctxSess, ctxId, cookies>>

(* --------------------------- MemoryStore.Exists ------------------------ *)
MemoryStore_Exists(p) ==
    /\ ~crashed
    /\ UNCHANGED <<down, mem, lockVars, rkeys>>
    /\ ~down
    /\ pc[p] = "exists"
    /\ LET outcome == ExistsOutcome(store, op[p].id, now) IN
         CASE outcome = "absent" ->
                Local(p, "done", NilSession, NoRet, resp[p])
           [] outcome = "expired" ->
                Local(p, "exists_del", NilSession, ret[p], resp[p])
           [] outcome = "live" ->
                Local(p, "done", NilSession, [NoRet EXCEPT !.exists = TRUE], resp[p])
    /\ UNCHANGED <<globals, calls, op, ctxSess, ctxId, cookies>>

(* Exists on an expired entry: Lock, delete, Unlock, return; the deferred
   RUnlock then runs on a mutex this goroutine no longer read-holds, which
   the runtime answers with the fatal error "RUnlock of unlocked RWMutex" *)
MemoryStore_ExistsDelete(p) ==
    /\ ~crashed
    /\ UNCHANGED <<down, mem, lockVars, rkeys>>
    /\ pc[p] = "exists_del"
    /\ store' = MapDelete(store, op[p].id)
    /\ crashed' = TRUE
    /\ Local(p, "done", NilSession, NoRet, resp[p])
    /\ UNCHANGED <<now, nextId, calls, op, ctxSess, ctxId, cookies>>

(* MemoryStore.Cleanup, run on a tick of startCleanupRoutine *)
MemoryStore_Cleanup ==
    /\ ~crashed
    /\ UNCHANGED <<down, mem, lockVars, rkeys>>
    /\ ~down
    /\ store' = CleanupMap(store, now)
    /\ UNCHANGED <<now, nextId, calls, crashed,
                   pc, op, loc, ret, ctxSess, ctxId, cookies, resp>>

(* Manager.Cleanup called through the API; count is len(expiredSessions) *)
Manager_Cleanup(p) ==
    /\ ~crashed
    /\ UNCHANGED <<down, mem, lockVars, rkeys>>
    /\ ~down
    /\ pc[p] = "cleanup"
    /\ store' = CleanupMap(store, now)
    /\ Local(p, "done", NilSession,
             [NoRet EXCEPT !.count = Cardinality(ExpiredIds(store, now))], resp[p])
    /\ UNCHANGED <<now, nextId, calls, crashed, op, ctxSess, ctxId, cookies>>


(* ----------------------------- Middleware ------------------------------ *)
(* no cookie, an empty cookie, or GetSession failed: CreateSession, bind the
   new session, issue its cookie, and hand over to the handler *)
Middleware_Create(p) ==
    /\ ~crashed
    /\ UNCHANGED <<down, mem, lockVars, rkeys>>
    /\ ~down
    /\ pc[p] = "mw_create"
    /\ LET s == NewSession(nextId + 1, now) IN
         /\ nextId' = nextId + 1
         /\ store' = MapPut(store, s)
         /\ Bind(p, s, s.id)
         /\ Local(p, "handler", NilSession, ret[p], resp[p])
    /\ UNCHANGED <<now, calls, crashed, op>>

Endpoints == {"info", "status", "set", "getdata", "remove", "refresh", "destroy"}

DestroySession_KeepsContext(p) ==
    /\ store' = MapDelete(store, ctxId[p])
    /\ cookies' = [cookies EXCEPT ![p] = Append(cookies[p], ClearedCookie)]
    /\ UNCHANGED <<ctxSess, ctxId>>
    /\ Local(p, "post", NilSession, NoRet, 200)

(* the error session.DestroySession returns before it changes anything *)
DestroyError(p) ==
    IF ctxId[p] = NoCtxId THEN ErrCtxNotFound
    ELSE IF ctxId[p] = EmptyId THEN ErrIdRequired
    ELSE IF down THEN ErrBackend
    ELSE ErrNone

(* session.DestroySession: delete from the store, clear the cookie, and
   c.Set(SessionKey, nil), c.Set(SessionIDKey, ""); the handler answers 500
   when it returns an error *)
DestroySession(p) ==
    IF DestroyError(p) # ErrNone
      THEN /\ Local(p, "post", NilSession, Err(DestroyError(p)), 500)
           /\ UNCHANGED <<store, ctxSess, ctxId, cookies>>
      ELSE /\ store' = MapDelete(store, ctxId[p])
           /\ cookies' = [cookies EXCEPT ![p] = Append(cookies[p], ClearedCookie)]
           /\ ctxSess' = [ctxSess EXCEPT ![p] = CtxNil]
           /\ ctxId' = [ctxId EXCEPT ![p] = EmptyId]
           /\ Local(p, "post", NilSession, NoRet, 200)

(* c.Next(): the SessionHandler endpoint the request is routed to *)
Handler(p, routes) ==
    /\ ~crashed
    /\ UNCHANGED <<down, mem, lockVars, rkeys>>
    /\ pc[p] = "handler"
    /\ \E ep \in routes, k \in Keys \cup {NoKey}, v \in Vals \cup {NoVal} :
         /\ (ep = "set") <=> (v # NoVal)
         /\ (ep \in {"set", "getdata", "remove"}) <=> (k # NoKey)
         /\ op' = [op EXCEPT ![p] = [@ EXCEPT !.ep = ep, !.key = k, !.val = v]]
         /\ CASE ep \in {"info", "status"} ->
                   /\ Local(p, "post", NilSession, NoRet,
                            IF IsSession(ctxSess[p]) \/ ep = "status" THEN 200 ELSE 404)
                   /\ UNCHANGED <<store, ctxSess, ctxId, cookies>>
              [] ep = "getdata" ->
                   /\ Local(p, "post", NilSession, NoRet,
                            IF IsSession(ctxSess[p]) /\ k \in DOMAIN ctxSess[p].data
                              THEN 200 ELSE 404)
                   /\ UNCHANGED <<store, ctxSess, ctxId, cookies>>
              [] ep = "set" /\ IsSession(ctxSess[p]) ->
                   /\ ctxSess' = [ctxSess EXCEPT ![p] =
                                    [@ EXCEPT !.data = DataSet(@, k, v),
                                              !.updatedAt = now]]
                   /\ Local(p, "post", NilSession, NoRet, 200)
                   /\ UNCHANGED <<store, ctxId, cookies>>
              [] ep = "remove" /\ IsSession(ctxSess[p]) ->
                   /\ ctxSess' = [ctxSess EXCEPT ![p] =
                                    [@ EXCEPT !.data = DataDelete(@, k),
                                              !.updatedAt = now]]
                   /\ Local(p, "post", NilSession, NoRet, 200)
                   /\ UNCHANGED <<store, ctxId, cookies>>
              [] ep \in {"set", "remove"} /\ ~IsSession(ctxSess[p]) ->
                   /\ Local(p, "post", NilSession, Err(ErrNotFound), 500)
                   /\ UNCHANGED <<store, ctxSess, ctxId, cookies>>
              [] ep = "refresh" /\ ctxId[p] # NoCtxId ->
                   /\ Local(p, "get", NilSession, NoRet, resp[p])
                   /\ UNCHANGED <<store, ctxSess, ctxId, cookies>>
              [] ep = "refresh" /\ ctxId[p] = NoCtxId ->
                   /\ Local(p, "post", NilSession, Err(ErrCtxNotFound), 404)
                   /\ UNCHANGED <<store, ctxSess, ctxId, cookies>>
              [] ep = "destroy" -> DestroySession(p)
    /\ UNCHANGED <<now, nextId, calls, crashed>>

Middleware_Save_Skipped(p) ==
    /\ ~crashed
    /\ UNCHANGED <<down, mem, lockVars, rkeys>>
    /\ ~down \/ ~IsSession(ctxSess[p])
    /\ pc[p] = "post"
    /\ Local(p, "done", NilSession, ret[p], resp[p])
    /\ UNCHANGED <<now, store, nextId, calls, crashed, op, ctxSess, ctxId, cookies>>

(* after c.Next(): SaveSession when the context value is a *Session *)
Middleware_Save(p) ==
    /\ ~crashed
    /\ UNCHANGED <<down, mem, lockVars, rkeys>>
    /\ ~down \/ ~IsSession(ctxSess[p])
    /\ pc[p] = "post"
    /\ IF IsSession(ctxSess[p])
         THEN LET s == SavedSession(ctxSess[p], now) IN
              /\ ctxSess' = [ctxSess EXCEPT ![p] = s]
              /\ store' = MapPut(store, s)
         ELSE UNCHANGED <<store, ctxSess>>
    /\ Local(p, "done", NilSession, ret[p], resp[p])
    /\ UNCHANGED <<now, nextId, calls, crashed, op, ctxId, cookies>>

(* ------------------------- store backend outage ------------------------ *)
(* the Redis backend becomes unreachable, or reachable again *)
Backend_Fails ==
    /\ ~crashed
    /\ ~down
    /\ down' = TRUE
    /\ UNCHANGED <<now, store, nextId, calls, crashed,
                   pc, op, loc, ret, ctxSess, ctxId, cookies, resp, mem,
                   lockVars, rkeys>>

Backend_Recovers ==
    /\ ~crashed
    /\ down
    /\ down' = FALSE
    /\ UNCHANGED <<now, store, nextId, calls, crashed,
                   pc, op, loc, ret, ctxSess, ctxId, cookies, resp, mem,
                   lockVars, rkeys>>

(* a store call made while the backend is down returns its error (RedisStore
   wraps the client's error), and the caller goes on as the code says:
   GetSession, CreateSession, SaveSession and DeleteSession return the error;
   the middleware logs a failed CreateSession and calls c.Next() with nothing
   bound and no cookie set, and logs a failed post-handler SaveSession *)
Store_Unavailable(p) ==
    /\ ~crashed
    /\ down
    /\ CASE pc[p] = "get" /\ FetchId(p) # EmptyId ->
                FetchFail(p, ErrBackend)
         [] pc[p] = "mw_create" ->
                /\ Local(p, "handler", NilSession, Err(ErrBackend), resp[p])
                /\ UNCHANGED <<op, ctxSess, ctxId, cookies>>
         [] pc[p] = "post" /\ IsSession(ctxSess[p]) ->
                /\ ctxSess' = [ctxSess EXCEPT ![p] = SavedSession(@, now)]
                /\ Local(p, "done", NilSession, ret[p], resp[p])
                /\ UNCHANGED <<op, ctxId, cookies>>
         [] pc[p] = "save" /\ IsSession(loc[p]) ->
                /\ IF InHandler(p)
                     THEN Local(p, "post", NilSession, Err(ErrBackend), 500)
                     ELSE Local(p, "done", NilSession, Err(ErrBackend), resp[p])
                /\ UNCHANGED <<op, ctxSess, ctxId, cookies>>
         [] \/ pc[p] = "create"
            \/ pc[p] = "delete" /\ op[p].id # EmptyId ->
                /\ Local(p, "done", NilSession, Err(ErrBackend), resp[p])
                /\ UNCHANGED <<op, ctxSess, ctxId, cookies>>
         [] OTHER -> FALSE
    /\ UNCHANGED <<globals, calls, down, mem, lockVars, rkeys>>

(* ------------------ MemoryStore and its caller as objects -------------- *)
(* the session an object denotes: its fields and the contents of its Data map *)
Deref(h, o) == [o EXCEPT !.data = h[o.data]]

CopyObject_SharesData(h, o) == [heap |-> h, obj |-> o]

CopyObject_EmptyData(h, o) ==
    [heap |-> Append(h, EmptyData), obj |-> [o EXCEPT !.data = Len(h) + 1]]

(* sessionCopy := *session; sessionCopy.Data = make(...); for k, v := range
   session.Data { sessionCopy.Data[k] = v } *)
CopyObject(h, o) ==
    [heap |-> Append(h, h[o.data]), obj |-> [o EXCEPT !.data = Len(h) + 1]]

(* what the store holds under each id *)
StoredSessions(m) == [i \in DOMAIN m.tab |-> Deref(m.heap, m.tab[i])]

ObjCall(kind, id) == [kind |-> kind, id |-> id, at |-> now]

ObjFrame ==
    UNCHANGED <<now, store, nextId, calls, crashed,
                pc, op, loc, ret, ctxSess, ctxId, cookies, resp, down,
                lockVars, rkeys>>

(* the caller builds a session of its own, as CreateSession does, with some
   data in it *)
Caller_New ==
    /\ Len(mem.heap) < MaxObjs
    /\ \E id \in 1..2, d \in {EmptyData, DataSet(EmptyData, "a", "x")} :
          mem' = [mem EXCEPT
                    !.heap = Append(@, d),
                    !.held = [NewSession(id, now) EXCEPT !.data = Len(mem.heap) + 1],
                    !.err = ErrNone,
                    !.last = ObjCall("New", id)]
    /\ ObjFrame

(* the caller adds, changes or deletes a key of the session it holds *)
Caller_Write ==
    /\ IsSession(mem.held)
    /\ \E k \in Keys, v \in Vals \cup {NoVal} :
          mem' = [mem EXCEPT
                    !.heap[mem.held.data] =
                        IF v = NoVal THEN DataDelete(@, k) ELSE DataSet(@, k, v),
                    !.last = ObjCall("Write", mem.held.id)]
    /\ ObjFrame

(* MemoryStore.Set of the session the caller holds *)
Obj_Set ==
    /\ IsSession(mem.held)
    /\ Len(mem.heap) < MaxObjs
    /\ LET c == CopyObject(mem.heap, mem.held) IN
         mem' = [mem EXCEPT
                   !.heap = c.heap,
                   !.tab = MapPut(@, c.obj),
                   !.err = ErrNone,
                   !.last = ObjCall("Set", mem.held.id)]
    /\ ObjFrame

(* MemoryStore.Get; the caller then holds what it returned *)
Obj_Get ==
    /\ \E id \in 1..2 :
          IF id \notin DOMAIN mem.tab
            THEN mem' = [mem EXCEPT !.held = NilSession, !.err = ErrNotFound,
                                    !.last = ObjCall("Get", id)]
          ELSE IF Expired(mem.tab[id], now)
            THEN mem' = [mem EXCEPT !.tab = MapDelete(@, id),
                                    !.held = NilSession, !.err = ErrExpired,
                                    !.last = ObjCall("Get", id)]
          ELSE /\ Len(mem.heap) < MaxObjs
               /\ LET c == CopyObject(mem.heap, mem.tab[id]) IN
                    mem' = [mem EXCEPT !.heap = c.heap, !.held = c.obj,
                                       !.err = ErrNone,
                                       !.last = ObjCall("Get", id)]
    /\ ObjFrame

(* MemoryStore.Delete *)
Obj_Delete ==
    /\ \E id \in 1..2 :
          mem' = [mem EXCEPT !.tab = MapDelete(@, id), !.err = ErrNone,
                             !.last = ObjCall("Delete", id)]
    /\ ObjFrame

(* --------------- MemoryStore under its sync.RWMutex, step by step ------ *)
LGo == {1, 2, 3}

(* goroutines 1 and 2 call the store; goroutine 3 runs startCleanupRoutine *)
Callers == {1, 2}

Sweeper == 3

LockIds == {1}

StoreKinds == {"Get", "Set", "Delete", "Exists", "Close"}

(* the statement a call goes on with after the one at position a *)
After(a) ==
    CASE a = "Get_RLock" -> "Get_Read"
      [] a = "Get_RUnlock" -> "Get_Lock"
      [] a = "Get_Lock" -> "Get_Delete"
      [] a = "Get_Delete" -> "Get_Unlock"
      [] a = "Get_Unlock" -> "Get_RLock2"
      [] a = "Get_RLock2" -> "Get_Defer"
      [] a = "Exists_RLock" -> "Exists_Read"
      [] a = "Exists_RUnlock" -> "Exists_Lock"
      [] a = "Exists_Lock" -> "Exists_Delete"
      [] a = "Exists_Delete" -> "Exists_Unlock"
      [] a = "Exists_Unlock" -> "Exists_Defer"
      [] a = "Set_Lock" -> "Set_Write"
      [] a = "Set_Write" -> "Set_Defer"
      [] a = "Delete_Lock" -> "Delete_Delete"
      [] a = "Delete_Delete" -> "Delete_Defer"
      [] a = "Cleanup_Lock" -> "Cleanup_Sweep"
      [] a = "Cleanup_Sweep" -> "Cleanup_Defer"
      [] a = "Close_Lock" -> "Close_Nil"
      [] a = "Close_Nil" -> "Close_Defer"
      [] OTHER -> "idle"

FirstAt(kind) ==
    IF kind \in {"Get", "Exists"} THEN kind \o "_RLock" ELSE kind \o "_Lock"

LockFrame ==
    UNCHANGED <<now, nextId, calls, pc, op, loc, ret, ctxSess, ctxId, cookies,
                resp, down, mem, rkeys>>

(* a goroutine calls Get, Set, Delete, Exists or Close; Set is given a session
   as CreateSession builds it; recovers says whether a deferred recover() is
   on the caller's stack (gin's Recovery middleware) *)
Store_Call(p) ==
    /\ ~crashed
    /\ frame[p].at = "idle"
    /\ calls < LockCalls
    /\ calls' = calls + 1
    /\ \E kind \in StoreKinds, id \in LockIds, r \in BOOLEAN :
          /\ r => kind = "Set"
          /\ frame' = [frame EXCEPT ![p] =
                         [@ EXCEPT !.at = FirstAt(kind), !.kind = kind, !.id = id,
                                   !.sess = IF kind = "Set" THEN NewSession(id, now)
                                            ELSE NilSession,
                                   !.out = "none", !.recovers = r]]
    /\ UNCHANGED <<now, nextId, pc, op, loc, ret, ctxSess, ctxId, cookies,
                   resp, down, mem, rkeys>>
    /\ UNCHANGED <<store, closed, crashed, mutex>>

Ticker_Fires_Once ==
    /\ ~crashed
    /\ frame[Sweeper].at = "idle"
    /\ frame[Sweeper].kind = "none"
    /\ frame' = [frame EXCEPT ![Sweeper] =
                   [@ EXCEPT !.at = "Cleanup_Lock", !.kind = "Cleanup",
                             !.out = "none"]]
    /\ LockFrame
    /\ UNCHANGED <<store, closed, crashed, mutex>>

(* startCleanupRoutine: for { select { case <-ticker.C: m.Cleanup(...) } } *)
Ticker_Fires ==
    /\ ~crashed
    /\ frame[Sweeper].at = "idle"
    /\ frame' = [frame EXCEPT ![Sweeper] =
                   [@ EXCEPT !.at = "Cleanup_Lock", !.kind = "Cleanup",
                             !.out = "none"]]
    /\ LockFrame
    /\ UNCHANGED <<store, closed, crashed, mutex>>

(* Every lock call and every access of m.data is a step of its own.  The
   mutex is sync.RWMutex as the runtime implements it: rc is the number of
   RLock calls not yet matched by an RUnlock, w the goroutine that has
   announced itself as writer (it owns the inner mutex), rwait the readers a
   waiting writer still waits for, rsem / wsem the wake-ups posted for blocked
   readers and for the waiting writer.  holdsR and holdsW are a goroutine's
   own account: the locks its calls have acquired and not yet released. *)
Mutex_RLock(p) ==
    /\ ~crashed
    /\ frame[p].at \in {"Get_RLock", "Get_RLock2", "Exists_RLock"}
    /\ ~frame[p].wait
    /\ mutex' = [mutex EXCEPT !.rc = @ + 1]
    /\ frame' = [frame EXCEPT ![p] =
                   IF mutex.w # 0
                     THEN [@ EXCEPT !.wait = TRUE]
                     ELSE [@ EXCEPT !.at = After(frame[p].at), !.holdsR = @ + 1]]
    /\ LockFrame
    /\ UNCHANGED <<store, closed, crashed>>

(* a reader blocked behind a writer is woken by the writer's Unlock *)
Mutex_RLock_Wake(p) ==
    /\ ~crashed
    /\ frame[p].at \in {"Get_RLock", "Get_RLock2", "Exists_RLock"}
    /\ frame[p].wait
    /\ mutex.rsem > 0
    /\ mutex' = [mutex EXCEPT !.rsem = @ - 1]
    /\ frame' = [frame EXCEPT ![p] =
                   [@ EXCEPT !.wait = FALSE, !.at = After(frame[p].at),
                             !.holdsR = @ + 1]]
    /\ LockFrame
    /\ UNCHANGED <<store, closed, crashed>>

(* RUnlock: readerCount.Add(-1); with no reader counted it is the fatal error
   "sync: RUnlock of unlocked RWMutex"; behind an announced writer it also
   takes one from readerWait and wakes the writer when that reaches zero *)
Mutex_RUnlock(p) ==
    /\ ~crashed
    /\ frame[p].at \in {"Get_RUnlock", "Get_Defer", "Exists_RUnlock", "Exists_Defer"}
    /\ IF mutex.rc = 0
         THEN /\ crashed' = TRUE
              /\ UNCHANGED <<mutex, frame>>
         ELSE /\ crashed' = crashed
              /\ mutex' = [mutex EXCEPT
                             !.rc = @ - 1,
                             !.rwait = IF mutex.w # 0 THEN @ - 1 ELSE @,
                             !.wsem = IF mutex.w # 0 /\ mutex.rwait = 1
                                        THEN @ + 1 ELSE @]
              /\ frame' = [frame EXCEPT ![p] =
                             [@ EXCEPT !.at = After(frame[p].at),
                                       !.holdsR = IF @ > 0 THEN @ - 1 ELSE 0]]
    /\ LockFrame
    /\ UNCHANGED <<store, closed>>

(* Lock: take the inner mutex, announce the writer, and wait for the readers
   counted at that moment to leave *)
Mutex_Lock(p) ==
    /\ ~crashed
    /\ frame[p].at \in {"Get_Lock", "Exists_Lock", "Set_Lock", "Delete_Lock",
                        "Cleanup_Lock", "Close_Lock"}
    /\ ~frame[p].wait
    /\ mutex.w = 0
    /\ LET r == mutex.rc
           rw == IF r # 0 THEN mutex.rwait + r ELSE mutex.rwait
           blocks == r # 0 /\ rw # 0
       IN /\ mutex' = [mutex EXCEPT !.w = p, !.rwait = rw]
          /\ frame' = [frame EXCEPT ![p] =
                         IF blocks
                           THEN [@ EXCEPT !.wait = TRUE]
                           ELSE [@ EXCEPT !.at = After(frame[p].at),
                                          !.holdsW = TRUE]]
    /\ LockFrame
    /\ UNCHANGED <<store, closed, crashed>>

(* the waiting writer is woken by the last reader's RUnlock *)
Mutex_Lock_Wake(p) ==
    /\ ~crashed
    /\ frame[p].at \in {"Get_Lock", "Exists_Lock", "Set_Lock", "Delete_Lock",
                        "Cleanup_Lock", "Close_Lock"}
    /\ frame[p].wait
    /\ mutex.wsem > 0
    /\ mutex' = [mutex EXCEPT !.wsem = @ - 1]
    /\ frame' = [frame EXCEPT ![p] =
                   [@ EXCEPT !.wait = FALSE, !.at = After(frame[p].at),
                             !.holdsW = TRUE]]
    /\ LockFrame
    /\ UNCHANGED <<store, closed, crashed>>

(* Unlock: wake every reader counted while the writer was announced, release
   the inner mutex *)
Mutex_Unlock(p) ==
    /\ ~crashed
    /\ frame[p].at \in {"Get_Unlock", "Exists_Unlock", "Set_Defer", "Delete_Defer",
                        "Cleanup_Defer", "Close_Defer"}
    /\ mutex' = [mutex EXCEPT !.w = 0, !.rsem = @ + mutex.rc]
    /\ frame' = [frame EXCEPT ![p] = [@ EXCEPT !.at = After(frame[p].at),
                                               !.holdsW = FALSE]]
    /\ crashed' = (frame[p].out = "panic" /\ ~frame[p].recovers)
    /\ LockFrame
    /\ UNCHANGED <<store, closed>>

(* session, exists := m.data[sessionID] and the expiry test, in Get and Exists *)
Map_Read(p) ==
    /\ ~crashed
    /\ frame[p].at \in {"Get_Read", "Exists_Read"}
    /\ LET outcome == ExistsOutcome(store, frame[p].id, now)
           k == frame[p].kind
       IN frame' = [frame EXCEPT ![p] =
            CASE outcome = "absent" ->
                   [@ EXCEPT !.at = k \o "_Defer",
                             !.out = IF k = "Get" THEN ErrNotFound ELSE "false"]
              [] outcome = "expired" ->
                   [@ EXCEPT !.at = k \o "_RUnlock",
                             !.out = IF k = "Get" THEN ErrExpired ELSE "false"]
              [] outcome = "live" ->
                   [@ EXCEPT !.at = k \o "_Defer",
                             !.out = IF k = "Get" THEN ErrNone ELSE "true"]]
    /\ LockFrame
    /\ UNCHANGED <<store, closed, crashed, mutex>>

(* delete(m.data, sessionID), in Delete and in the expired paths of Get and
   Exists; on the nil map of a closed store it does nothing *)
Map_Delete(p) ==
    /\ ~crashed
    /\ frame[p].at \in {"Get_Delete", "Exists_Delete", "Delete_Delete"}
    /\ store' = MapDelete(store, frame[p].id)
    /\ frame' = [frame EXCEPT ![p] =
                   [@ EXCEPT !.at = After(frame[p].at),
                             !.out = IF frame[p].kind = "Delete" THEN ErrNone ELSE @]]
    /\ LockFrame
    /\ UNCHANGED <<closed, crashed, mutex>>

(* m.data[session.ID] = &sessionCopy, in Set; on the nil map of a closed
   store it panics ("assignment to entry in nil map"), and the deferred Unlock
   runs while the panic unwinds *)
Map_Write(p) ==
    /\ ~crashed
    /\ frame[p].at = "Set_Write"
    /\ IF closed
         THEN /\ store' = store
              /\ frame' = [frame EXCEPT ![p] =
                             [@ EXCEPT !.at = "Set_Defer", !.out = "panic"]]
         ELSE /\ store' = MapPut(store, frame[p].sess)
              /\ frame' = [frame EXCEPT ![p] =
                             [@ EXCEPT !.at = "Set_Defer", !.out = ErrNone]]
    /\ LockFrame
    /\ UNCHANGED <<closed, crashed, mutex>>

(* the two loops of Cleanup *)
Map_Sweep(p) ==
    /\ ~crashed
    /\ frame[p].at = "Cleanup_Sweep"
    /\ store' = CleanupMap(store, now)
    /\ frame' = [frame EXCEPT ![p] = [@ EXCEPT !.at = "Cleanup_Defer",
                                               !.out = ErrNone]]
    /\ LockFrame
    /\ UNCHANGED <<closed, crashed, mutex>>

(* Close: m.data = nil *)
Map_Nil(p) ==
    /\ ~crashed
    /\ frame[p].at = "Close_Nil"
    /\ closed' = TRUE
    /\ store' = [i \in {} |-> NilSession]
    /\ frame' = [frame EXCEPT ![p] = [@ EXCEPT !.at = "Close_Defer",
                                               !.out = ErrNone]]
    /\ LockFrame
    /\ UNCHANGED <<crashed, mutex>>

(* ------------------------------ RedisStore ----------------------------- *)
(* rkeys is the key space of the Redis server: under each key the stored
   session and the instant until the key lives (SET key data EX ttl); a key
   whose time is up is gone for every command, whether or not the server has
   removed it yet *)
RedisIds == {1, 2}

(* getKey: r.prefix + sessionID *)
RedisKey(id) == <<"session:", id>>

(* Set: ttl := time.Until(session.ExpiresAt); if ttl <= 0 { ttl = MaxAge } *)
RedisTTL(s, t) ==
    LET ttl == s.expiresAt - t IN IF ttl <= 0 THEN MaxAge ELSE ttl

KeyLive(k) == k \in DOMAIN rkeys /\ now < rkeys[k].until

RedisFrame ==
    UNCHANGED <<now, store, nextId, calls, crashed, pc, op, loc, resp,
                ctxSess, ctxId, cookies, down, mem, lockVars>>

(* RedisStore.Set of a session some CreateSession built at an earlier instant *)
Redis_Set ==
    /\ \E id \in RedisIds, c \in 0..now :
          LET s == NewSession(id, c)
              k == RedisKey(id)
          IN /\ rkeys' = [x \in (DOMAIN rkeys) \cup {k} |->
                            IF x = k THEN [sess |-> s, until |-> now + RedisTTL(s, now)]
                            ELSE rkeys[x]]
             /\ ret' = [ret EXCEPT ![1] = Saved(s)]
    /\ RedisFrame

(* RedisStore.Get: redis.Nil is "session not found" *)
Redis_Get ==
    /\ \E id \in RedisIds :
          ret' = [ret EXCEPT ![1] =
                    IF KeyLive(RedisKey(id)) THEN Ok(rkeys[RedisKey(id)].sess)
                    ELSE Err(ErrNotFound)]
    /\ UNCHANGED rkeys
    /\ RedisFrame

(* RedisStore.Exists: count > 0 *)
Redis_Exists ==
    /\ \E id \in RedisIds :
          ret' = [ret EXCEPT ![1] = [NoRet EXCEPT !.exists = KeyLive(RedisKey(id))]]
    /\ UNCHANGED rkeys
    /\ RedisFrame

(* RedisStore.Delete: DEL key *)
Redis_Delete ==
    /\ \E id \in RedisIds :
          rkeys' = [x \in (DOMAIN rkeys) \ {RedisKey(id)} |-> rkeys[x]]
    /\ ret' = [ret EXCEPT ![1] = NoRet]
    /\ RedisFrame

(* the server drops the keys whose time is up *)
Redis_Expire ==
    /\ \E k \in DOMAIN rkeys : ~KeyLive(k)
    /\ rkeys' = [x \in {k \in DOMAIN rkeys : KeyLive(k)} |-> rkeys[x]]
    /\ UNCHANGED ret
    /\ RedisFrame

(* ---------------------------- specification ---------------------------- *)
(* the steps of a goroutine that serves an HTTP request *)
ServerStep(p) ==
    \/ MemoryStore_Get(p)
    \/ MemoryStore_GetDelete(p)
    \/ Manager_GetSession(p)
    \/ Manager_SaveSession(p)
    \/ Middleware_Create(p)
    \/ Middleware_Save(p)

(* the steps only a direct caller of the Manager / Store API takes *)
ApiStep(p) ==
    \/ Call_Api(p, ApiKinds, Keys, Vals, MaxCalls)
    \/ Manager_CreateSession(p)
    \/ Manager_DeleteSession(p)
    \/ MemoryStore_Exists(p)
    \/ MemoryStore_ExistsDelete(p)
    \/ Manager_Cleanup(p)

Idle(p) == pc[p] \in {"idle", "done"}

(* The server: concurrent requests, the clock, the cleanup goroutine.  Requests
   carry no cookie or an id the server issued, and are routed to the endpoints
   that write the session or to /session/info.  The two serving goroutines are
   interchangeable, so a request is given goroutine 2 only while goroutine 1
   is serving another one. *)
Next ==
    \/ Tick
    \/ MemoryStore_Cleanup
    \/ Call_Http(1, {NoCookie} \cup IssuedIds)
    \/ (~Idle(1) /\ Call_Http(2, {NoCookie} \cup IssuedIds))
    \/ \E p \in Procs : ServerStep(p) \/ Handler(p, Endpoints \ {"status", "getdata"})

Spec == Init /\ [][Next]_vars

(* one caller: requests and API calls one after the other, beside the clock
   and the cleanup goroutine *)
SeqNext ==
    \/ Tick
    \/ MemoryStore_Cleanup
    \/ Call_Http(1, {NoCookie, EmptyId, UnknownId} \cup IssuedIds)
    \/ ServerStep(1)
    \/ Handler(1, Endpoints)
    \/ ApiStep(1)

SeqSpec == Init /\ [][SeqNext]_vars

(* one caller of the Manager's data methods: it creates sessions, writes and
   reads their keys one call at a time, and deletes them, beside the clock
   and the cleanup goroutine *)
DataKinds == {"Create", "Get", "SetData", "GetData", "Delete"}

DataKeys == {"a", "b", "c"}

DataVals == {"x", "y"}

DataNext ==
    \/ Tick
    \/ MemoryStore_Cleanup
    \/ Call_Api(1, DataKinds, DataKeys, DataVals, DataCalls)
    \/ MemoryStore_Get(1)
    \/ MemoryStore_GetDelete(1)
    \/ Manager_GetSession(1)
    \/ Manager_SaveSession(1)
    \/ Manager_CreateSession(1)
    \/ Manager_DeleteSession(1)

DataSpec == Init /\ [][DataNext]_vars

(* one caller, as in SeqSpec, of a store whose backend may become unreachable
   at any moment (the Redis store: its calls then return an error, and it has
   no cleanup goroutine); while the backend is reachable the store answers as
   the memory store does *)
OutageKinds == {"Create", "Get", "Save", "Delete"}

OutageNext ==
    \/ Tick
    \/ Backend_Fails
    \/ Backend_Recovers
    \/ Call_Http(1, {NoCookie, EmptyId, UnknownId} \cup IssuedIds)
    \/ Call_Api(1, OutageKinds, Keys, Vals, MaxCalls)
    \/ ServerStep(1)
    \/ Handler(1, Endpoints)
    \/ Manager_CreateSession(1)
    \/ Manager_DeleteSession(1)
    \/ Store_Unavailable(1)

OutageSpec == Init /\ [][OutageNext]_vars

(* the memory store and one caller of it, as objects on a heap, beside the
   clock *)
ObjNext ==
    \/ Tick
    \/ Caller_New
    \/ Caller_Write
    \/ Obj_Set
    \/ Obj_Get
    \/ Obj_Delete

ObjSpec == Init /\ [][ObjNext]_vars

(* the memory store under its mutex: two goroutines calling it, the cleanup
   goroutine, and the clock *)
LockNext ==
    \/ Tick
    \/ Ticker_Fires
    \/ \E p \in Callers : Store_Call(p)
    \/ \E p \in LGo : Mutex_RLock(p)
    \/ \E p \in LGo : Mutex_RLock_Wake(p)
    \/ \E p \in LGo : Mutex_RUnlock(p)
    \/ \E p \in LGo : Mutex_Lock(p)
    \/ \E p \in LGo : Mutex_Lock_Wake(p)
    \/ \E p \in LGo : Mutex_Unlock(p)
    \/ \E p \in LGo : Map_Read(p)
    \/ \E p \in LGo : Map_Delete(p)
    \/ \E p \in LGo : Map_Write(p)
    \/ \E p \in LGo : Map_Sweep(p)
    \/ \E p \in LGo : Map_Nil(p)

LockSpec == Init /\ [][LockNext]_vars

(* the steps of goroutine p inside a call of the store *)
GoStep(p) ==
    \/ Mutex_RLock(p)
    \/ Mutex_RLock_Wake(p)
    \/ Mutex_RUnlock(p)
    \/ Mutex_Lock(p)
    \/ Mutex_Lock_Wake(p)
    \/ Mutex_Unlock(p)
    \/ Map_Read(p)
    \/ Map_Delete(p)
    \/ Map_Write(p)
    \/ Map_Sweep(p)
    \/ Map_Nil(p)

(* the same under the scheduling of the Go runtime: a goroutine that can run
   does run, a goroutine that asks for the mutex gets it once it is free often
   enough (sync.Mutex hands the lock to a starving waiter), and the ticker of
   the cleanup goroutine keeps firing *)
FairLockSpec ==
    /\ LockSpec
    /\ \A p \in LGo : SF_vars(GoStep(p))
    /\ WF_vars(Ticker_Fires)

(* one caller of the Redis store, beside the clock *)
RedisNext ==
    \/ Tick
    \/ Redis_Set
    \/ Redis_Get
    \/ Redis_Exists
    \/ Redis_Delete
    \/ Redis_Expire

RedisSpec == Init /\ [][RedisNext]_vars

(* ------------------------------ properties ----------------------------- *)
(* goroutine p returns from a call of the given kind in this step *)
Returns(p, kind) == op[p].kind = kind /\ pc[p] # "done" /\ pc'[p] = "done"

(* C1: a GetSession made after the session's expiresAt has passed fails with
   "session expired" or "session not found" and leaves no entry for the id, so
   a GetSession that does return a session returns the stored one, whose
   expiresAt has not passed; Exists on an id without an entry answers false
   and changes nothing. *)
C1_ExpiredSessionIsGone ==
    [][\A p \in Procs :
          /\ Returns(p, "Get") =>
                /\ IsSession(ret'[p].sess) =>
                      /\ ret'[p].err = ErrNone
                      /\ op[p].id \in DOMAIN store'
                      /\ ret'[p].sess = store'[op[p].id]
                      /\ ~(ret'[p].sess.expiresAt < now)
                /\ ~IsSession(ret'[p].sess) =>
                      ret'[p].err \in {ErrExpired, ErrNotFound, ErrIdRequired}
                /\ ret'[p].err \in {ErrExpired, ErrNotFound} =>
                      /\ op[p].id \notin DOMAIN store'
                      /\ ExistsOutcome(store', op[p].id, now') = "absent"
          /\ (pc[p] = "exists" /\ pc'[p] # "exists" /\ op[p].id \notin DOMAIN store) =>
                /\ pc'[p] = "done"
                /\ ~ret'[p].exists
                /\ ~crashed'
                /\ store' = store
      ]_vars

C1_Witness ==
    \E p \in Procs :
        /\ pc[p] = "done"
        /\ op[p].kind = "Get"
        /\ op[p].id \in IssuedIds
        /\ ret[p].err = ErrExpired
        /\ op[p].id \notin DOMAIN store
        /\ now > MaxAge

(* C2, as the specification states it: a session is live exactly while
   now < expiresAt, so no read (MemoryStore.Get, MemoryStore.Exists,
   Manager.GetSession) answers with a session whose expiresAt is now or
   earlier, and every read returns to its caller. *)
C2_LiveOnlyBeforeExpiresAt ==
    [][/\ ~crashed'
       /\ \A p \in Procs :
             /\ (pc[p] = "get" /\ pc'[p] = "check") => now < loc'[p].expiresAt
             /\ (Returns(p, "Get") /\ IsSession(ret'[p].sess)) =>
                   now < ret'[p].sess.expiresAt
             /\ (Returns(p, "Exists") /\ ret'[p].exists) =>
                   now < store[op[p].id].expiresAt
      ]_vars

(* the post-handler step of the middleware *)
PostHandler(p) == pc[p] = "post" /\ pc'[p] = "done"

(* C3: when the middleware returns with a session bound in the context, the
   store holds that session's data: a key the handler set is there with its
   value, a key the handler removed is not there. *)
C3_HandlerWritesReachStore ==
    [][\A p \in Procs :
          (PostHandler(p) /\ IsSession(ctxSess[p])) =>
              LET id == ctxSess[p].id IN
              /\ id \in DOMAIN store'
              /\ store'[id].data = ctxSess[p].data
              /\ op[p].ep = "set" =>
                    /\ op[p].key \in DOMAIN store'[id].data
                    /\ store'[id].data[op[p].key] = op[p].val
              /\ op[p].ep = "remove" => op[p].key \notin DOMAIN store'[id].data
      ]_vars

C3_Witness ==
    \E p \in Procs :
        /\ pc[p] = "done"
        /\ op[p].ep = "set"
        /\ op[p].id \in IssuedIds
        /\ ctxId[p] = op[p].id
        /\ ctxId[p] \in DOMAIN store
        /\ op[p].key \in DOMAIN store[ctxId[p]].data

(* the middleware hands the request over to the handler in this step *)
HandsOver(p) == pc[p] # "handler" /\ pc'[p] = "handler"

(* C4: at the hand-over to the handler the bound session is in the store and
   its expiresAt has not passed; the context id, the session's id and the
   issued cookie agree; and unless that id is the one the request presented,
   it was never issued before and the session's data is empty -- which is the
   case when the cookie was missing, empty or unknown. *)
C4_HandlerGetsLiveSession ==
    [][\A p \in Procs :
          HandsOver(p) =>
              LET id == ctxId'[p] IN
              /\ IsSession(ctxSess'[p])
              /\ ctxSess'[p].id = id
              /\ cookies'[p] = <<SessionCookie(id)>>
              /\ id \in DOMAIN store'
              /\ store'[id] = ctxSess'[p]
              /\ ~(store'[id].expiresAt < now')
              /\ (id # op[p].id \/ op[p].id \in {NoCookie, EmptyId, UnknownId}) =>
                    /\ id # op[p].id
                    /\ id \notin IssuedIds
                    /\ id \in Ids
                    /\ ctxSess'[p].data = EmptyData
      ]_vars

C4_Witness ==
    \E p \in Procs :
        /\ pc[p] = "handler"
        /\ op[p].id \in IssuedIds
        /\ ctxId[p] # op[p].id
        /\ ctxId[p] \in DOMAIN store
        /\ op[p].id \notin DOMAIN store

(* C5: once a request whose handler called DestroySession has completed, the
   session the middleware had bound is not in the store, the last cookie set
   is the cleared one with a negative max-age, and the context holds no
   session. *)
C5_DestroyedStaysDestroyed ==
    \A p \in Procs :
        (pc[p] = "done" /\ op[p].kind = "http" /\ op[p].ep = "destroy") =>
            /\ Len(cookies[p]) = 2
            /\ cookies[p][1].value \in IssuedIds
            /\ cookies[p][1].value \notin DOMAIN store
            /\ cookies[p][2].value = EmptyId
            /\ cookies[p][2].maxAge < 0
            /\ ~IsSession(ctxSess[p])
            /\ ctxId[p] = EmptyId

C5_Witness ==
    \E p \in Procs :
        /\ pc[p] = "done"
        /\ op[p].kind = "http"
        /\ op[p].ep = "destroy"
        /\ op[p].id \in IssuedIds
        /\ cookies[p][1].value = op[p].id
        /\ resp[p] = 200

(* goroutine p serves, or has served, a request with a session in its context *)
Served(p) == pc[p] = "done" /\ op[p].kind = "http" /\ IsSession(ctxSess[p])

(* C6: when two overlapping requests for one session id have both completed,
   the stored record is, as a whole, the session object one of them saved
   last: id, data and timestamps all come from that one object, and nothing
   of the other request's object is merged in. *)
C6_LastSaveWinsWhole ==
    \A p, q \in Procs :
        (/\ p # q
         /\ Served(p)
         /\ Served(q)
         /\ ctxSess[p].id = ctxSess[q].id
         /\ ctxSess[p].id \in DOMAIN store)
        => store[ctxSess[p].id] \in {ctxSess[p], ctxSess[q]}

C6_Witness ==
    \E p, q \in Procs :
        /\ p # q
        /\ Served(p)
        /\ Served(q)
        /\ op[p].id = op[q].id
        /\ ctxSess[p].id = ctxSess[q].id
        /\ ctxSess[p].id \in DOMAIN store
        /\ op[p].ep = "set"
        /\ op[q].ep = "set"
        /\ op[p].key # op[q].key
        /\ store[ctxSess[p].id] = ctxSess[q]
        /\ op[p].key \notin DOMAIN store[ctxSess[p].id].data

(* C7, as the specification states it: once a request to the refresh endpoint
   has completed with success, the stored expiresAt of the session is the
   value Manager.RefreshSession gave it. *)
C7_RefreshEndpointKeepsRefresh ==
    \A p \in Procs :
        (/\ pc[p] = "done"
         /\ op[p].kind = "http"
         /\ op[p].ep = "refresh"
         /\ resp[p] = 200
         /\ IsSession(ret[p].saved)
         /\ ret[p].saved.id \in DOMAIN store)
        => store[ret[p].saved.id].expiresAt = ret[p].saved.expiresAt

(* Manager.RefreshSession, called directly or by the refresh endpoint *)
RefreshCall(p) ==
    op[p].kind = "Refresh" \/ (op[p].kind = "http" /\ op[p].ep = "refresh")

(* the step in which RefreshSession writes the refreshed session *)
RefreshSucceeds(p) ==
    /\ RefreshCall(p)
    /\ pc[p] = "save"
    /\ pc'[p] # "save"
    /\ IsSession(loc[p])
    /\ loc[p].id \in DOMAIN store

(* a successful refresh keeps id, createdAt and data, and touches no other entry *)
RefreshKeepsRest(p) ==
    RefreshSucceeds(p) =>
        LET id == loc[p].id IN
        /\ ret'[p].err = ErrNone
        /\ DOMAIN store' = DOMAIN store
        /\ store'[id].id = store[id].id
        /\ store'[id].createdAt = store[id].createdAt
        /\ store'[id].data = store[id].data
        /\ \A i \in (DOMAIN store) \ {id} : store'[i] = store[i]

(* a refresh of a missing or expired id fails and at most deletes that entry *)
RefreshFailureChangesNothing(p) ==
    (/\ RefreshCall(p)
     /\ pc[p] \in {"get", "get_del", "check"}
     /\ pc'[p] \in {"done", "post"}) =>
        /\ ret'[p].err \in {ErrNotFound, ErrExpired, ErrIdRequired}
        /\ \/ store' = store
           \/ /\ FetchId(p) \in DOMAIN store
              /\ store[FetchId(p)].expiresAt < now
              /\ store' = MapDelete(store, FetchId(p))

(* C8, as the specification states it: a successful refresh leaves the stored
   expiresAt strictly greater than it was. *)
C8_RefreshStrictlyExtends ==
    [][\A p \in Procs :
          /\ RefreshSucceeds(p) =>
                store'[loc[p].id].expiresAt > store[loc[p].id].expiresAt
          /\ RefreshKeepsRest(p)
          /\ RefreshFailureChangesNothing(p)
      ]_vars

(* the step in which RefreshSession reads the clock and sets ExpiresAt *)
RefreshComputes(p) == RefreshCall(p) /\ pc[p] = "check" /\ pc'[p] = "save"

(* C8, amended: a successful refresh sets expiresAt to the clock reading of
   RefreshSession plus the max-age and stores it; the stored expiresAt is
   never less than it was, and is strictly greater whenever the clock has
   advanced since the session was created or last refreshed; id, createdAt
   and data are unchanged; a refresh of a missing or expired id fails and
   changes nothing except that it deletes the expired entry. *)
C8_RefreshExtendsWhenClockAdvanced ==
    [][\A p \in Procs :
          /\ RefreshComputes(p) =>
                /\ loc'[p].expiresAt = now + MaxAge
                /\ now > loc[p].expiresAt - MaxAge =>
                      loc'[p].expiresAt > loc[p].expiresAt
          /\ RefreshSucceeds(p) =>
                /\ store'[loc[p].id].expiresAt = loc[p].expiresAt
                /\ store'[loc[p].id].expiresAt >= store[loc[p].id].expiresAt
          /\ RefreshKeepsRest(p)
          /\ RefreshFailureChangesNothing(p)
      ]_vars

C8_Witness ==
    \E p \in Procs :
        /\ pc[p] = "done"
        /\ op[p].kind = "Refresh"
        /\ ret[p].err = ErrNone
        /\ IsSession(ret[p].saved)
        /\ ret[p].saved.id \in DOMAIN store
        /\ store[ret[p].saved.id] = ret[p].saved
        /\ ret[p].saved.expiresAt > ret[p].saved.createdAt + MaxAge

(* C9: SaveSession stores the session it is given with updatedAt set to now
   and with id, data, createdAt and expiresAt as given; a save that is not
   part of a refresh never raises the stored expiresAt of the session. *)
C9_SaveNeverExtends ==
    [][\A p \in Procs :
          /\ (pc[p] = "save" /\ pc'[p] # "save" /\ IsSession(loc[p])) =>
                /\ loc[p].id \in DOMAIN store'
                /\ store'[loc[p].id] = [loc[p] EXCEPT !.updatedAt = now]
                /\ (~RefreshCall(p) /\ loc[p].id \in DOMAIN store) =>
                      store'[loc[p].id].expiresAt <= store[loc[p].id].expiresAt
          /\ (PostHandler(p) /\ IsSession(ctxSess[p])) =>
                /\ ctxSess[p].id \in DOMAIN store'
                /\ store'[ctxSess[p].id] = [ctxSess[p] EXCEPT !.updatedAt = now]
                /\ ctxSess[p].id \in DOMAIN store =>
                      store'[ctxSess[p].id].expiresAt <= store[ctxSess[p].id].expiresAt
      ]_vars

C9_Witness ==
    \E p \in Procs :
        /\ pc[p] = "done"
        /\ op[p].kind = "SetData"
        /\ ret[p].err = ErrNone
        /\ op[p].id \in DOMAIN store
        /\ store[op[p].id].updatedAt > store[op[p].id].createdAt
        /\ store[op[p].id].expiresAt = store[op[p].id].createdAt + MaxAge
        /\ store[op[p].id].expiresAt < store[op[p].id].updatedAt + MaxAge

(* C10: a Cleanup sweep leaves exactly the entries whose expiresAt had not
   passed, each unchanged; afterwards no entry's expiresAt has passed and
   Exists takes its "live" branch for precisely the ids that were live. *)
C10_CleanupKeepsExactlyLive ==
    [][\A p \in Procs :
          (pc[p] = "cleanup" /\ pc'[p] = "done") =>
              LET live == {i \in DOMAIN store : ~(store[i].expiresAt < now)} IN
              /\ DOMAIN store' = live
              /\ \A i \in live : store'[i] = store[i]
              /\ \A i \in DOMAIN store' : ~(store'[i].expiresAt < now')
              /\ \A i \in Ids \cup {UnknownId} :
                    (ExistsOutcome(store', i, now') = "live") <=> (i \in live)
              /\ \A i \in Ids \cup {UnknownId} :
                    ExistsOutcome(store', i, now') # "expired"
              /\ ret'[p].count = Cardinality((DOMAIN store) \ live)
      ]_vars

C10_Witness ==
    \E p \in Procs :
        /\ pc[p] = "done"
        /\ op[p].kind = "Cleanup"
        /\ ret[p].count >= 1
        /\ DOMAIN store # {}

(* C11, as the specification states it: MemoryStore.Exists answers true only
   for an entry whose expiresAt has not passed, and on an entry that is
   present but expired it returns false normally, having removed the entry,
   with the store still usable. *)
C11_ExistsOnExpiredReturnsFalse ==
    [][\A p \in Procs :
          /\ (Returns(p, "Exists") /\ ret'[p].exists) =>
                /\ op[p].id \in DOMAIN store
                /\ ~(store[op[p].id].expiresAt < now)
          /\ (pc[p] = "exists_del" /\ pc'[p] # "exists_del") =>
                /\ ~ret'[p].exists
                /\ op[p].id \notin DOMAIN store'
                /\ ~crashed'
      ]_vars

(* the store returns, to a Get that follows a Set of the held session S
   at once, a session equal to S in id, data, createdAt and expiresAt *)
GetReturnsWhatWasSet ==
    /\ mem'.err = ErrNone
    /\ IsSession(mem'.held)
    /\ LET S == Deref(mem.heap, mem.held)
           G == Deref(mem'.heap, mem'.held) IN
         /\ G.id = S.id
         /\ G.data = S.data
         /\ G.createdAt = S.createdAt
         /\ G.expiresAt = S.expiresAt

(* a Get of the id that was Set in the step before, at the same clock reading *)
GetRightAfterSet ==
    /\ mem.last = ObjCall("Set", mem.last.id)
    /\ mem'.last = ObjCall("Get", mem.last.id)
    /\ mem' # mem

(* C12, as the specification states it: for every session S, Get right after
   Set(S) returns a session equal to S except possibly for updatedAt. *)
C12_GetAfterSetReturnsS ==
    [][GetRightAfterSet => GetReturnsWhatWasSet]_vars

(* C12, amended: for every session S whose expiresAt has not passed, Get
   right after Set(S) returns a session equal to S (updatedAt included); for
   an S whose expiresAt has passed it returns "session expired" and the entry
   is removed. *)
C12_GetAfterSetReturnsLiveS ==
    [][GetRightAfterSet =>
          IF mem.held.expiresAt < now
            THEN /\ mem'.err = ErrExpired
                 /\ ~IsSession(mem'.held)
                 /\ mem.last.id \notin DOMAIN mem'.tab
            ELSE /\ GetReturnsWhatWasSet
                 /\ Deref(mem'.heap, mem'.held) = Deref(mem.heap, mem.held)
      ]_vars

C12_Witness ==
    /\ mem.last.kind = "Get"
    /\ mem.err = ErrNone
    /\ IsSession(mem.held)
    /\ mem.held.id \in DOMAIN mem.tab
    /\ Deref(mem.heap, mem.held) = Deref(mem.heap, mem.tab[mem.held.id])
    /\ DOMAIN mem.heap[mem.held.data] # {}

(* C15: the store shares no Data map with its caller: a step that is not a
   store operation (the caller adding, changing or deleting keys of a session
   it got from Get or has passed to Set) leaves every stored session as it
   was, so a later Get returns what it would have returned before. *)
C15_CallerWritesStayPrivate ==
    [][/\ mem'.tab = mem.tab => StoredSessions(mem') = StoredSessions(mem)
       /\ (mem'.last.kind = "Write" /\ mem' # mem) =>
             /\ mem'.tab = mem.tab
             /\ \A i \in DOMAIN mem.tab : mem.tab[i].data # mem.held.data
      ]_vars

C15_Witness ==
    /\ mem.last.kind = "Write"
    /\ IsSession(mem.held)
    /\ mem.held.id \in DOMAIN mem.tab
    /\ Deref(mem.heap, mem.held).data # Deref(mem.heap, mem.tab[mem.held.id]).data
    /\ Deref(mem.heap, mem.held).expiresAt = mem.tab[mem.held.id].expiresAt

(* C13: a SetSessionData call on a live session, run on its own, stores the
   session with the written key at the written value and every other key as
   it was, so keys written one call at a time are all there with their last
   values and no others; GetSessionData returns the stored value of a key. *)
C13_SequentialWritesAllKept ==
    [][\A p \in Procs :
          /\ (/\ op[p].kind = "SetData"
              /\ pc[p] = "save"
              /\ pc'[p] = "done"
              /\ IsSession(loc[p])
              /\ op[p].id \in DOMAIN store) =>
                LET old == store[op[p].id].data
                    new == store'[op[p].id].data IN
                /\ ret'[p].err = ErrNone
                /\ DOMAIN new = (DOMAIN old) \cup {op[p].key}
                /\ new[op[p].key] = op[p].val
                /\ \A k \in (DOMAIN old) \ {op[p].key} : new[k] = old[k]
          /\ (/\ Returns(p, "GetData")
              /\ pc[p] = "check"
              /\ op[p].id \in DOMAIN store) =>
                IF ret'[p].err = ErrNone
                  THEN /\ op[p].key \in DOMAIN store[op[p].id].data
                       /\ ret'[p].val = store[op[p].id].data[op[p].key]
                  ELSE \/ ret'[p].err = ErrExpired
                       \/ /\ ret'[p].err = ErrDataNotFound
                          /\ op[p].key \notin DOMAIN store[op[p].id].data
      ]_vars

C13_Witness ==
    \E p \in Procs :
        /\ pc[p] = "done"
        /\ op[p].kind = "GetData"
        /\ ret[p].err = ErrNone
        /\ op[p].id \in DOMAIN store
        /\ DOMAIN store[op[p].id].data = DataKeys
        /\ \E k1, k2 \in DataKeys : store[op[p].id].data[k1] # store[op[p].id].data[k2]
        /\ ret[p].val = store[op[p].id].data[op[p].key]
        /\ calls = DataCalls

(* what CreateSession must have done when it returns session s *)
CreatedFresh(s) ==
    /\ IsSession(s)
    /\ s.id \notin IssuedIds
    /\ s.id \notin DOMAIN store
    /\ DOMAIN s.data = {}
    /\ s.createdAt = now
    /\ s.updatedAt = now
    /\ s.expiresAt = now + MaxAge
    /\ s.id \in DOMAIN store'
    /\ store'[s.id] = s

(* C14: CreateSession returns a session with an id never issued before, no
   data, createdAt = updatedAt = now and expiresAt = now + max-age, and that
   session is in the store when the call returns; when the store write fails
   it returns the error and no session, and the store is as it was.  This
   holds for a direct call and for the call the middleware makes. *)
C14_CreateSessionFreshAndStored ==
    [][\A p \in Procs :
          /\ (pc[p] = "create" /\ pc'[p] = "done") =>
                IF down
                  THEN /\ ret'[p].err = ErrBackend
                       /\ ~IsSession(ret'[p].sess)
                       /\ store' = store
                  ELSE /\ ret'[p].err = ErrNone
                       /\ CreatedFresh(ret'[p].sess)
          /\ (pc[p] = "mw_create" /\ pc'[p] = "handler") =>
                IF down
                  THEN /\ ~IsSession(ctxSess'[p])
                       /\ store' = store
                  ELSE CreatedFresh(ctxSess'[p])
      ]_vars

C14_Witness ==
    \E p \in Procs :
        /\ pc[p] = "done"
        /\ op[p].kind = "Create"
        /\ ret[p].err = ErrNone
        /\ IsSession(ret[p].sess)
        /\ ret[p].sess.id >= 2
        /\ ret[p].sess.createdAt >= 1
        /\ ret[p].sess.id \in DOMAIN store
        /\ store[ret[p].sess.id] = ret[p].sess

(* C16: for an id that has no entry in the store -- never created, or
   deleted -- store Get, Manager.GetSession and Manager.GetSessionData return
   "session not found", no session and no value, do not crash, and leave the
   store unchanged. *)
C16_AbsentIdIsNotFound ==
    [][\A p \in Procs :
          (/\ op[p].kind \in {"Get", "GetData"}
           /\ pc[p] = "get"
           /\ pc'[p] # "get"
           /\ op[p].id # EmptyId
           /\ op[p].id \notin DOMAIN store) =>
              /\ pc'[p] = "done"
              /\ ret'[p].err = ErrNotFound
              /\ ~IsSession(ret'[p].sess)
              /\ ret'[p].val = NoVal
              /\ store' = store
              /\ ~crashed'
      ]_vars

C16_Witness ==
    \E p \in Procs :
        /\ pc[p] = "done"
        /\ op[p].kind = "GetData"
        /\ ret[p].err = ErrNotFound
        /\ op[p].id \in IssuedIds
        /\ op[p].id \notin DOMAIN store
        /\ now = 0
        /\ ~crashed

(* C17: Delete returns no error whether or not the id has an entry; it
   removes that entry and nothing else, so on an absent id -- in particular
   on an id it has just deleted -- it leaves the store as it is. *)
C17_DeleteIsIdempotent ==
    [][\A p \in Procs :
          (pc[p] = "delete" /\ pc'[p] = "done" /\ op[p].id # EmptyId) =>
              /\ ret'[p].err = ErrNone
              /\ ~crashed'
              /\ DOMAIN store' = (DOMAIN store) \ {op[p].id}
              /\ \A i \in DOMAIN store' : store'[i] = store[i]
              /\ op[p].id \notin DOMAIN store => store' = store
      ]_vars

C17_Witness ==
    \E p \in Procs :
        /\ pc[p] = "done"
        /\ op[p].kind = "Delete"
        /\ ret[p].err = ErrNone
        /\ op[p].id \in IssuedIds
        /\ op[p].id \notin DOMAIN store
        /\ DOMAIN store # {}
        /\ now = 0

(* C18: a session's id never changes: every entry of the store holds, under
   key k, a session whose id is k, an id CreateSession issued; the session
   GetSession fetches or returns for an id, the one RefreshSession,
   SetSessionData and RemoveSessionData save for it, and the one the
   middleware binds for it, all carry that id. *)
C18_IdNeverChanges ==
    /\ \A k \in DOMAIN store :
          /\ IsSession(store[k])
          /\ store[k].id = k
          /\ k \in IssuedIds
    /\ \A p \in Procs :
          /\ (pc[p] \in {"check", "save"} /\ op[p].kind # "Save" /\ IsSession(loc[p])) =>
                loc[p].id = FetchId(p)
          /\ (pc[p] = "save" /\ op[p].kind = "Save" /\ IsSession(loc[p])) =>
                loc[p].id \in IssuedIds
          /\ (pc[p] = "done" /\ op[p].kind = "Get" /\ IsSession(ret[p].sess)) =>
                ret[p].sess.id = op[p].id
          /\ (pc[p] \in {"post", "done"} /\ IsSession(ret[p].saved)) =>
                ret[p].saved.id = (IF op[p].kind = "http" THEN cookies[p][1].value
                                   ELSE IF op[p].kind = "Save" THEN ret[p].saved.id
                                   ELSE op[p].id)
          /\ IsSession(ctxSess[p]) =>
                /\ ctxSess[p].id = ctxId[p]
                /\ ctxSess[p].id = cookies[p][1].value

C18_Witness ==
    \E p \in Procs :
        /\ pc[p] = "done"
        /\ op[p].kind = "Refresh"
        /\ ret[p].err = ErrNone
        /\ IsSession(ret[p].saved)
        /\ ret[p].saved.id = op[p].id
        /\ op[p].id \in DOMAIN store
        /\ store[op[p].id].id = op[p].id
        /\ store[op[p].id].updatedAt > store[op[p].id].createdAt

(* C19, as the specification states it: when the lookup of the presented id
   fails with "not found" or "expired" the middleware creates a new session;
   when it fails because the backend is unavailable the request is handed to
   the handler with no session bound and no cookie issued; and no store error
   keeps the request from reaching the handler. *)
C19_OutageMeansPassThrough ==
    [][\A p \in Procs :
          /\ (HandsOver(p) /\ pc[p] = "mw_create"
                /\ ret[p].err \in {ErrNotFound, ErrExpired} /\ ~down) =>
                /\ IsSession(ctxSess'[p])
                /\ ctxSess'[p].id \notin IssuedIds
                /\ cookies'[p] = <<SessionCookie(ctxSess'[p].id)>>
          /\ (HandsOver(p) /\ pc[p] = "mw_create" /\ ret[p].err = ErrBackend) =>
                /\ ~IsSession(ctxSess'[p])
                /\ ctxId'[p] = NoCtxId
                /\ cookies'[p] = <<>>
          /\ (InMiddleware(p) /\ pc[p] \in {"get", "get_del", "check", "mw_create"}
                /\ pc'[p] # pc[p]) =>
                pc'[p] \in {"get_del", "check", "mw_create", "handler"}
      ]_vars

(* C20, as the specification states it: a handler answers a request whose
   session is missing or expired with 404 and a store failure with 500, never
   the one for the other. *)
C20_MissingSessionIs404 ==
    \A p \in Procs :
        (pc[p] \in {"post", "done"} /\ InHandler(p)) =>
            /\ ret[p].err \in {ErrNotFound, ErrExpired, ErrCtxNotFound, ErrIdRequired} =>
                  resp[p] = 404
            /\ ret[p].err = ErrBackend => resp[p] = 500

(* C21: the Manager checks its argument before it delegates: GetSession and
   DeleteSession of the empty id, and SaveSession of nil, return their
   invalid-argument error and leave the store as it is, also while the
   backend is unreachable (no store operation was asked); and the error of
   the store operation a Manager call delegates to (Get, Set, Delete) is the
   error the Manager call returns. *)
C21_ArgumentChecksPrecedeDelegation ==
    [][\A p \in Procs :
          /\ (pc[p] \in {"get", "delete"} /\ pc'[p] = "done"
                /\ op[p].kind \in {"Get", "Delete"} /\ op[p].id = EmptyId) =>
                /\ ret'[p].err = ErrIdRequired
                /\ ~IsSession(ret'[p].sess)
                /\ store' = store
          /\ (pc[p] = "save" /\ pc'[p] = "done"
                /\ op[p].kind = "Save" /\ ~IsSession(loc[p])) =>
                /\ ret'[p].err = ErrSessionRequired
                /\ store' = store
          /\ (down /\ pc[p] \in {"get", "delete", "save", "create"} /\ pc'[p] = "done"
                /\ op[p].kind \in {"Get", "Delete", "Save", "Create"}
                /\ op[p].id # EmptyId
                /\ (op[p].kind = "Save" => IsSession(loc[p]))) =>
                /\ ret'[p].err = ErrBackend
                /\ ~IsSession(ret'[p].sess)
                /\ store' = store
      ]_vars

C21_Witness ==
    \E p \in Procs :
        /\ down
        /\ pc[p] = "done"
        /\ op[p].kind = "Delete"
        /\ op[p].id = EmptyId
        /\ ret[p].err = ErrIdRequired
        /\ DOMAIN store # {}

(* C22, as the specification states it: a goroutine reads m.data only between
   its RLock (or Lock) and the matching unlock, inserts into or deletes from
   it only between its Lock and Unlock, and while one goroutine is between
   Lock and Unlock no other goroutine is between a lock call and its unlock. *)
C22_MapGuardedByLock ==
    /\ \A p \in LGo :
          /\ frame[p].at \in {"Get_Read", "Exists_Read"} =>
                (frame[p].holdsR > 0 \/ frame[p].holdsW)
          /\ frame[p].at \in {"Get_Delete", "Exists_Delete", "Delete_Delete",
                               "Set_Write", "Cleanup_Sweep", "Close_Nil"} =>
                frame[p].holdsW
    /\ \A p, q \in LGo :
          (p # q /\ frame[p].holdsW) => (~frame[q].holdsW /\ frame[q].holdsR = 0)

(* C27, as the specification states it: a goroutine that is in no call of the
   store holds neither lock, a goroutine about to call RUnlock holds the read
   lock and one about to call Unlock holds the write lock. *)
C27_LocksReleasedAsAcquired ==
    \A p \in LGo :
        /\ frame[p].at = "idle" => (frame[p].holdsR = 0 /\ ~frame[p].holdsW)
        /\ frame[p].at \in {"Get_RUnlock", "Get_Defer", "Exists_RUnlock",
                             "Exists_Defer"} => frame[p].holdsR = 1
        /\ frame[p].at \in {"Get_Unlock", "Exists_Unlock", "Set_Defer",
                             "Delete_Defer", "Cleanup_Defer", "Close_Defer"} =>
              frame[p].holdsW

(* C30, as the specification states it: once the store was closed, no call of
   Get, Set, Delete, Exists, Cleanup or Close panics: each returns a value or
   an error. *)
C30_StoreSafeAfterClose ==
    closed => \A p \in LGo : frame[p].out # "panic"

(* C25, as the specification states it: once a Close has returned, the
   cleanup goroutine starts no further Cleanup. *)
C25_CloseStopsCleanupRoutine ==
    [][(\E p \in Callers : frame[p].kind = "Close" /\ frame[p].at = "idle") =>
          ~(frame[Sweeper].at = "idle" /\ frame'[Sweeper].at = "Cleanup_Lock")
      ]_vars

(* C23, as the specification states it: under fair scheduling every call of
   Get, Set, Delete, Exists, Cleanup or Close that has started returns, as
   long as the process lives. *)
C23_EveryCallReturns ==
    \A p \in LGo :
        (frame[p].at # "idle") ~> (frame[p].at = "idle" \/ crashed)

(* C24: while the process lives, the cleanup goroutine keeps sweeping: an
   entry whose expiresAt has passed is eventually no longer in the map, also
   when no Get or Exists ever asks for it (the id is then absent, or a later
   Set has put a session that is not expired under it). *)
C24_ExpiredEventuallySwept ==
    \A id \in LockIds :
        (id \in DOMAIN store /\ Expired(store[id], now)) ~>
            (id \notin DOMAIN store \/ ~Expired(store[id], now) \/ crashed)

C24_Witness ==
    /\ frame[Sweeper].at = "Cleanup_Defer"
    /\ frame[1].kind = "Set"
    /\ frame[1].at = "idle"
    /\ frame[1].out = ErrNone
    /\ Expired(frame[1].sess, now)
    /\ frame[2].kind = "none"
    /\ frame[1].id \notin DOMAIN store
    /\ calls = 1
    /\ ~closed

(* C26, as the specification states it: every key of the Redis store is
   "session:" + the id of the session stored under it and lives until that
   session's expiresAt, not longer: its time-to-live was expiresAt - now when
   it was set. *)
C26_KeyLivesUntilExpiresAt ==
    \A k \in DOMAIN rkeys :
        /\ k = RedisKey(rkeys[k].sess.id)
        /\ rkeys[k].until = rkeys[k].sess.expiresAt

(* C28, as the specification states it: an entry that leaves the map in a
   step of the memory store itself (the delete on the expired path of Get, the
   Cleanup sweep), and not in a Delete the Manager or a handler asked for, is
   expired at that moment. *)
C28_LazyDeleteOnlyRemovesExpired ==
    [][\A id \in DOMAIN store :
          (/\ id \notin DOMAIN store'
           /\ ~\E p \in Procs : pc[p] \in {"handler", "check", "delete"}
                                   /\ pc'[p] # pc[p]) =>
              Expired(store[id], now)
      ]_vars

(* C29, as the specification states it: once DestroySession has deleted a
   session and returned, no step puts an entry back under that id. *)
C29_DestroyedStaysGone ==
    [][\A q \in Procs :
          (/\ pc[q] \in {"post", "done"}
           /\ op[q].kind = "http"
           /\ op[q].ep = "destroy"
           /\ resp[q] = 200
           /\ cookies[q][1].value \notin DOMAIN store) =>
              cookies[q][1].value \notin DOMAIN store'
      ]_vars

=============================================================================
